---- MODULE Spec2Model ----
(***************************************************************************)
(* The rpmconf plugin of dnf-plugins-extras (plugins/rpm_conf.py):         *)
(* UnattendedRpmConf, the unattended override of rpmconf's handlers for    *)
(* .rpmnew / .rpmsave pairs, and Rpmconf, the dnf plugin whose hooks       *)
(* config(), resolved() and transaction() drive one resolution run per     *)
(* package-manager transaction.                                            *)
(***************************************************************************)
EXTENDS Naturals, Sequences, FiniteSets, TLC

(***************************************************************************)
(* Bounds of the model.                                                    *)
(***************************************************************************)
\* most transaction items one resolved transaction holds
MaxItems == 2
\* longest self.packages list the model lets the plugin accumulate
MaxPkgs == 2
\* largest SystemExit code the resolution run is let to terminate with
MaxCode == 4

(***************************************************************************)
(* Program constants.                                                      *)
(***************************************************************************)
\* errno.ENOENT, the code of "missing MERGE variable"
ENOENT == 2
\* errno.EINTR, the code of "missing file"
EINTR == 4

None == "None"

\* the values the `unattended` option of the [main] section may hold
\* ("bogus" stands for any value outside the recognised three)
UnattendedOptions == {"diff", "maintainer", "user", "bogus"}
FrontendOptions == {"vimdiff"}
PkgNames == {"p", "q"}

(***************************************************************************)
(* The filesystem the handlers act on.  One configuration slot: the        *)
(* active file and its two variants, plus one path no pair names.          *)
(***************************************************************************)
ConfPath == "conf"
NewPath == "conf.rpmnew"
SavePath == "conf.rpmsave"
OtherSlot == "unrelated"
Paths == {ConfPath, NewPath, SavePath, OtherSlot}

\* file contents (byte strings) and modification times
Contents == {<<0>>, <<1>>, <<0, 0>>}
MTimes == {"t1", "t2"}

Absent == [type |-> "absent"]
BrokenLink == [type |-> "broken_symlink"]
Regular(c, m) == [type |-> "regular", content |-> c, mtime |-> m]
RegularFiles == {Regular(c, m) : c \in Contents, m \in MTimes}
FileStates == {Absent, BrokenLink} \cup RegularFiles


(***************************************************************************)
(* What the handlers do to the filesystem, and the calls they make.  An    *)
(* effect e is [fs, calls, raised]: the filesystem, the calls made so far  *)
(* and whether an OSError is propagating.                                  *)
(***************************************************************************)
Call(op, by, a, b) == [op |-> op, by |-> by, a |-> a, b |-> b]

\* RpmConf.is_broken_symlink: a link whose target does not exist
is_broken_symlink(f, path) == f[path].type = "broken_symlink"

\* RpmConf._remove(path): the path is deleted
_remove(e, by, path) ==
    [e EXCEPT !.fs = [e.fs EXCEPT ![path] = Absent],
              !.calls = Append(e.calls, Call("_remove", by, path, None))]

\* RpmConf._overwrite(src, dst): dst's slot takes src's file, src is gone
_overwrite(e, by, src, dst) ==
    [e EXCEPT !.fs = [e.fs EXCEPT ![dst] = e.fs[src], ![src] = Absent],
              !.calls = Append(e.calls, Call("_overwrite", by, src, dst))]

\* RpmConf.show_diff(a, b): renders the difference, touches no file
show_diff(e, by, a, b) ==
    [e EXCEPT !.calls = Append(e.calls, Call("show_diff", by, a, b))]

\* the answers a user gives the base class's prompt
Answers == {"skip", "keep", "install", "diff"}

\* RpmConf._handle_rpmnew / _handle_rpmsave of the base class: the
\* interactive prompt flow, acting as the user answers
super_handle(e, kind, conf_file, other_file, answer) ==
    LET p == [e EXCEPT !.calls = Append(e.calls,
                  Call("super._handle_" \o kind, "override", conf_file, other_file))]
    IN  CASE answer = "keep"    -> _remove(p, "base", other_file)
          [] answer = "install" -> _overwrite(p, "base", other_file, conf_file)
          [] answer = "diff"    -> show_diff(p, "base", conf_file, other_file)
          [] OTHER              -> p

\* os.stat(path) follows links: it fails on a missing path or a broken link
stat_fails(f, path) == f[path].type # "regular"

\* filecmp._sig: (file type, size, mtime); every stat-able file here is regular
sig(f, path) == <<f[path].type, Len(f[path].content), f[path].mtime>>

\* filecmp.cmp(f1, f2) with its default shallow=True: equal signatures are
\* taken as equal files; only otherwise are sizes and then bytes compared.
\* [raised, value]: os.stat's OSError, or the verdict.
filecmp_cmp(f, f1, f2) ==
    IF stat_fails(f, f1) \/ stat_fails(f, f2)
    THEN [raised |-> TRUE, value |-> FALSE]
    ELSE IF sig(f, f1) = sig(f, f2)
    THEN [raised |-> FALSE, value |-> TRUE]
    ELSE IF sig(f, f1)[2] # sig(f, f2)[2]
    THEN [raised |-> FALSE, value |-> FALSE]
    ELSE [raised |-> FALSE, value |-> f[f1].content = f[f2].content]

\* UnattendedRpmConf._test_duplicate.  `compared` tells whether filecmp.cmp
\* was evaluated (the `and` short-circuits on a broken symlink).
_test_duplicate(f, conf_file, other_file) ==
    IF ~(is_broken_symlink(f, conf_file) \/ is_broken_symlink(f, other_file))
    THEN LET c == filecmp_cmp(f, conf_file, other_file)
         IN  [raised |-> c.raised, value |-> c.value, compared |-> TRUE]
    ELSE [raised |-> FALSE, value |-> FALSE, compared |-> FALSE]

NoEffect(f) == [fs |-> f, calls |-> <<>>, raised |-> FALSE]

\* _handle_rpmnew with the actions of _handle_rpmsave: the symmetric
\* implementation, which swaps the maintainer's and the user's outcome
_handle_rpmnew_symmetric(mode, f, conf_file, other_file, answer) ==
    LET d == _test_duplicate(f, conf_file, other_file)
        e == NoEffect(f)
    IN  IF d.raised THEN [e EXCEPT !.raised = TRUE]
        ELSE IF d.value THEN _remove(e, "override", other_file)
        ELSE IF mode = None
        THEN super_handle(e, "rpmnew", conf_file, other_file, answer)
        ELSE IF mode = "diff"
        THEN show_diff(e, "override", conf_file, other_file)
        ELSE IF mode = "maintainer"
        THEN _remove(e, "override", other_file)
        ELSE IF mode = "user"
        THEN _overwrite(e, "override", other_file, conf_file)
        ELSE e

\* _handle_rpmnew with the duplicate test made only in the unattended modes
_handle_rpmnew_late_test(mode, f, conf_file, other_file, answer) ==
    LET d == _test_duplicate(f, conf_file, other_file)
        e == NoEffect(f)
    IN  IF mode = None
        THEN super_handle(e, "rpmnew", conf_file, other_file, answer)
        ELSE IF d.raised THEN [e EXCEPT !.raised = TRUE]
        ELSE IF d.value THEN _remove(e, "override", other_file)
        ELSE IF mode = "diff"
        THEN show_diff(e, "override", conf_file, other_file)
        ELSE IF mode = "maintainer"
        THEN _overwrite(e, "override", other_file, conf_file)
        ELSE IF mode = "user"
        THEN _remove(e, "override", other_file)
        ELSE e

\* _handle_rpmnew overwriting in the wrong direction in maintainer mode
_handle_rpmnew_overwrite_reversed(mode, f, conf_file, other_file, answer) ==
    LET d == _test_duplicate(f, conf_file, other_file)
        e == NoEffect(f)
    IN  IF d.raised THEN [e EXCEPT !.raised = TRUE]
        ELSE IF d.value THEN _remove(e, "override", other_file)
        ELSE IF mode = None
        THEN super_handle(e, "rpmnew", conf_file, other_file, answer)
        ELSE IF mode = "diff"
        THEN show_diff(e, "override", conf_file, other_file)
        ELSE IF mode = "maintainer"
        THEN _overwrite(e, "override", conf_file, other_file)
        ELSE IF mode = "user"
        THEN _remove(e, "override", other_file)
        ELSE e

\* UnattendedRpmConf._handle_rpmnew
_handle_rpmnew(mode, f, conf_file, other_file, answer) ==
    LET d == _test_duplicate(f, conf_file, other_file)
        e == NoEffect(f)
    IN  IF d.raised THEN [e EXCEPT !.raised = TRUE]
        ELSE IF d.value THEN _remove(e, "override", other_file)
        ELSE IF mode = None
        THEN super_handle(e, "rpmnew", conf_file, other_file, answer)
        ELSE IF mode = "diff"
        THEN show_diff(e, "override", conf_file, other_file)
        ELSE IF mode = "maintainer"
        THEN _overwrite(e, "override", other_file, conf_file)
        ELSE IF mode = "user"
        THEN _remove(e, "override", other_file)
        ELSE e

\* _handle_rpmsave with the actions of _handle_rpmnew: the symmetric
\* implementation, which swaps the maintainer's and the user's outcome
_handle_rpmsave_symmetric(mode, f, conf_file, other_file, answer) ==
    LET d == _test_duplicate(f, conf_file, other_file)
        e == NoEffect(f)
    IN  IF d.raised THEN [e EXCEPT !.raised = TRUE]
        ELSE IF d.value THEN _remove(e, "override", other_file)
        ELSE IF mode = None
        THEN super_handle(e, "rpmsave", conf_file, other_file, answer)
        ELSE IF mode = "diff"
        THEN show_diff(e, "override", other_file, conf_file)
        ELSE IF mode = "maintainer"
        THEN _overwrite(e, "override", other_file, conf_file)
        ELSE IF mode = "user"
        THEN _remove(e, "override", other_file)
        ELSE e

\* _handle_rpmsave showing the difference in _handle_rpmnew's order
_handle_rpmsave_diff_swapped(mode, f, conf_file, other_file, answer) ==
    LET d == _test_duplicate(f, conf_file, other_file)
        e == NoEffect(f)
    IN  IF d.raised THEN [e EXCEPT !.raised = TRUE]
        ELSE IF d.value THEN _remove(e, "override", other_file)
        ELSE IF mode = None
        THEN super_handle(e, "rpmsave", conf_file, other_file, answer)
        ELSE IF mode = "diff"
        THEN show_diff(e, "override", conf_file, other_file)
        ELSE IF mode = "maintainer"
        THEN _remove(e, "override", other_file)
        ELSE IF mode = "user"
        THEN _overwrite(e, "override", other_file, conf_file)
        ELSE e

\* _handle_rpmsave deferring to the base class's _handle_rpmnew
_handle_rpmsave_wrong_super(mode, f, conf_file, other_file, answer) ==
    LET d == _test_duplicate(f, conf_file, other_file)
        e == NoEffect(f)
    IN  IF d.raised THEN [e EXCEPT !.raised = TRUE]
        ELSE IF d.value THEN _remove(e, "override", other_file)
        ELSE IF mode = None
        THEN super_handle(e, "rpmnew", conf_file, other_file, answer)
        ELSE IF mode = "diff"
        THEN show_diff(e, "override", other_file, conf_file)
        ELSE IF mode = "maintainer"
        THEN _remove(e, "override", other_file)
        ELSE IF mode = "user"
        THEN _overwrite(e, "override", other_file, conf_file)
        ELSE e

\* UnattendedRpmConf._handle_rpmsave
_handle_rpmsave(mode, f, conf_file, other_file, answer) ==
    LET d == _test_duplicate(f, conf_file, other_file)
        e == NoEffect(f)
    IN  IF d.raised THEN [e EXCEPT !.raised = TRUE]
        ELSE IF d.value THEN _remove(e, "override", other_file)
        ELSE IF mode = None
        THEN super_handle(e, "rpmsave", conf_file, other_file, answer)
        ELSE IF mode = "diff"
        THEN show_diff(e, "override", other_file, conf_file)
        ELSE IF mode = "maintainer"
        THEN _remove(e, "override", other_file)
        ELSE IF mode = "user"
        THEN _overwrite(e, "override", other_file, conf_file)
        ELSE e

(***************************************************************************)
(* The state: the filesystem, the host (stdin, the assume flags, the       *)
(* plugin's configuration file, the resolved transaction), the Rpmconf     *)
(* plugin's attributes, the UnattendedRpmConf the transaction hook built,  *)
(* the position of the running hook, and what the last hook call did.      *)
(***************************************************************************)
VARIABLES fs, stdin, assumeyes, assumeno, conf_main, base_transaction,
          packages, frontend, unattended, _interactive,
          pc, rconf, handled, logged, hookResult, runExit

vars == <<fs, stdin, assumeyes, assumeno, conf_main, base_transaction,
          packages, frontend, unattended, _interactive,
          pc, rconf, handled, logged, hookResult, runExit>>

host == <<stdin, assumeyes, assumeno, conf_main>>
plugin == <<packages, frontend, unattended, _interactive>>
report == <<handled, logged, hookResult, runExit>>

NoOption == "NoOption"
NoRconf == [built |-> FALSE]
\* how rconf.run() ended: not yet or by returning, by sys.exit(code), or by
\* an OSError a handler let through
NoExit == [exc |-> None]
SystemExit(code) == [exc |-> "SystemExit", code |-> code]
OSError == [exc |-> "OSError"]

\* sys.stdin: missing, not a terminal, a terminal
StdinStates == {"none", "notty", "tty"}
\* the [main] section of the plugin's configuration file
MainSections == [frontend : FrontendOptions \cup {NoOption},
                 unattended : UnattendedOptions \cup {NoOption}]

\* what installs() of one transaction item returns: no package, or one
InstallLists == {<<>>} \cup {<<n>> : n \in PkgNames}
SeqsUpTo(S, n) == UNION {[1..k -> S] : k \in 0..n}
\* the resolved transactions: sequences of transaction items
Transactions == SeqsUpTo(InstallLists, MaxItems)

\* the filesystems a run may find: the unrelated path holds a regular file
Filesystems ==
    {f \in [Paths -> FileStates] : f[OtherSlot] = Regular(<<0>>, "t1")}

\* a few of them: the active file present or deleted, an .rpmnew variant
\* of other content present or not, an .rpmsave copy of it present or not
SessionFilesystems ==
    {f \in Filesystems :
        /\ f[ConfPath] \in {Regular(<<0>>, "t1"), Absent}
        /\ f[NewPath] \in {Regular(<<1>>, "t2"), Absent}
        /\ f[SavePath] \in {Regular(<<0>>, "t2"), Absent}}

\* Rpmconf.__init__, on one of the filesystems F
InitOver(F) ==
    /\ fs \in F
    /\ stdin = "tty" /\ assumeyes = FALSE /\ assumeno = FALSE
    /\ conf_main = [frontend |-> NoOption, unattended |-> NoOption]
    /\ base_transaction = <<>>
    /\ packages = <<>>
    /\ frontend = None
    /\ unattended = None
    /\ _interactive = None
    /\ pc = "constructed"
    /\ rconf = NoRconf
    /\ handled = <<>> /\ logged = <<>>
    /\ hookResult = None /\ runExit = NoExit

\* the interactivity test without its assumeno operand
ComputeInteractive_no_assumeno(in, yes, no) ==
    IF (in = "none" \/ in # "tty") \/ yes THEN FALSE ELSE TRUE

\* config(), lines 101-105: the interactivity of the session
ComputeInteractive(in, yes, no) ==
    IF (in = "none" \/ in # "tty") \/ yes \/ no THEN FALSE ELSE TRUE

\* config(), lines 109-112: the frontend option
ReadFrontend(main) ==
    IF main.frontend # NoOption THEN main.frontend ELSE None

\* the validation without its final else: an absent option keeps the mode
ReadUnattended_keep(main) ==
    IF main.unattended # NoOption
    THEN IF main.unattended \notin {"diff", "maintainer", "user"}
         THEN None ELSE main.unattended
    ELSE unattended

\* config(), lines 114-119: the unattended option, validated
ReadUnattended(main) ==
    IF main.unattended # NoOption
    THEN IF main.unattended \notin {"diff", "maintainer", "user"}
         THEN None ELSE main.unattended
    ELSE None

\* Rpmconf.config, with the host state it reads
config(in, yes, no, main) ==
    /\ pc \in {"constructed", "configured"}
    /\ stdin' = in /\ assumeyes' = yes /\ assumeno' = no /\ conf_main' = main
    /\ _interactive' = ComputeInteractive(in, yes, no)
    /\ frontend' = ReadFrontend(main)
    /\ unattended' = ReadUnattended(main)
    /\ pc' = "configured"
    /\ UNCHANGED <<fs, base_transaction, packages, rconf, report>>

RECURSIVE Flatten(_)
\* resolved(), lines 125-133: the names of the installed packages, in order
Flatten(items) ==
    IF items = <<>> THEN <<>> ELSE Head(items) \o Flatten(Tail(items))

\* resolved(), lines 122-133: what self.packages becomes
Collect(interactive, pkgs, items) ==
    IF ~interactive THEN pkgs ELSE pkgs \o Flatten(items)

\* Rpmconf.resolved, on the transaction the host resolved
resolved(items) ==
    /\ pc \in {"configured", "done"}
    /\ Len(Collect(_interactive, packages, items)) <= MaxPkgs
    /\ base_transaction' = items
    /\ packages' = Collect(_interactive, packages, items)
    /\ pc' = "resolved"
    /\ handled' = <<>> /\ logged' = <<>>
    /\ hookResult' = None /\ runExit' = NoExit
    /\ rconf' = NoRconf
    /\ UNCHANGED <<fs, host, frontend, unattended, _interactive>>

\* the skip test with any() for all()
SessionSkipped_any(mode, interactive) == (mode = None) \/ ~interactive

\* transaction(), lines 136-137: the session is not to run
SessionSkipped(mode, interactive) == (mode = None) /\ ~interactive

\* transaction(), lines 143-146: the UnattendedRpmConf built for the run
BuildRconf(pkgs, fe, mode) ==
    [built |-> TRUE, packages |-> pkgs, frontend |-> fe, unattended |-> mode]

\* Rpmconf.transaction up to rconf.run(): skip the session, or build the
\* resolution engine and start its run
transaction(skip) ==
    /\ pc = "resolved"
    /\ skip = SessionSkipped(unattended, _interactive)
    /\ IF skip
       THEN /\ logged' = <<"will not run in non-interactive mode">>
            /\ hookResult' = "returned"
            /\ rconf' = NoRconf
            /\ pc' = "done"
       ELSE /\ logged' = <<>>
            /\ hookResult' = "pending"
            /\ rconf' = BuildRconf(packages, frontend, unattended)
            /\ pc' = "run_rpmnew"
    /\ UNCHANGED <<fs, host, base_transaction, plugin, handled, runExit>>

\* the record of one handler call: the pair, the filesystem before and
\* after, the calls the handler made, and whether it raised
HandlerCall(kind, conf_file, other_file, e) ==
    [kind |-> kind, conf_file |-> conf_file, other_file |-> other_file,
     before |-> fs, after |-> e.fs, calls |-> e.calls, raised |-> e.raised]

\* one variant of the slot met by the run: when the variant exists its
\* handler is called, with effect e
Handled(kind, conf_file, other_file, e, next) ==
    IF fs[other_file] = Absent
    THEN /\ pc' = next
         /\ UNCHANGED <<fs, handled, hookResult, runExit>>
    ELSE /\ handled' = Append(handled, HandlerCall(kind, conf_file, other_file, e))
         /\ fs' = e.fs
         /\ IF e.raised
            THEN \* an OSError is no SystemExit: it leaves run() and
                 \* transaction() uncaught
                 /\ pc' = "done"
                 /\ hookResult' = "raised"
                 /\ runExit' = OSError
            ELSE /\ pc' = next
                 /\ UNCHANGED <<hookResult, runExit>>

\* rconf.run() reaches the slot's .rpmnew variant
run_rpmnew(answer) ==
    /\ pc = "run_rpmnew"
    /\ Handled("rpmnew", ConfPath, NewPath,
               _handle_rpmnew(rconf.unattended, fs, ConfPath, NewPath, answer),
               "run_rpmsave")
    /\ UNCHANGED <<host, base_transaction, plugin, rconf, logged>>

\* rconf.run() reaches the slot's .rpmsave variant
run_rpmsave(answer) ==
    /\ pc = "run_rpmsave"
    /\ Handled("rpmsave", ConfPath, SavePath,
               _handle_rpmsave(rconf.unattended, fs, ConfPath, SavePath, answer),
               "run_end")
    /\ UNCHANGED <<host, base_transaction, plugin, rconf, logged>>

\* the except clause without its EINTR branch
OnSystemExit_no_eintr(code) ==
    IF code = ENOENT
    THEN [logged |-> <<"ignoring sys.exit: missing MERGE variable">>,
          result |-> "returned"]
    ELSE [logged |-> <<>>, result |-> "returned"]

\* transaction(), lines 149-157: the except clause, on SystemExit(code)
OnSystemExit(code) ==
    IF code = ENOENT
    THEN [logged |-> <<"ignoring sys.exit: missing MERGE variable">>,
          result |-> "returned"]
    ELSE IF code = EINTR
    THEN [logged |-> <<"ignoring sys.exit: missing file">>,
          result |-> "returned"]
    ELSE [logged |-> <<>>, result |-> "returned"]

\* rconf.run() ends early with sys.exit(code), and transaction() handles it
run_exit(code) ==
    /\ pc \in {"run_rpmnew", "run_rpmsave", "run_end"}
    /\ runExit' = SystemExit(code)
    /\ logged' = OnSystemExit(code).logged
    /\ hookResult' = OnSystemExit(code).result
    /\ pc' = "done"
    /\ UNCHANGED <<fs, host, base_transaction, plugin, rconf, handled>>

\* rconf.run() returns, and so does transaction()
run_return ==
    /\ pc = "run_end"
    /\ hookResult' = "returned"
    /\ pc' = "done"
    /\ UNCHANGED <<fs, host, base_transaction, plugin, rconf, handled,
                   logged, runExit>>

ExitCodes == 0..MaxCode

\* the steps of the plugin, its inputs drawn from the given sets
NextOver(Ins, Flags, Mains, Trans) ==
    \/ \E in \in Ins, yes \in Flags, no \in Flags, main \in Mains :
          config(in, yes, no, main)
    \/ \E items \in Trans : resolved(items)
    \/ \E skip \in BOOLEAN : transaction(skip)
    \/ \E answer \in Answers : run_rpmnew(answer)
    \/ \E answer \in Answers : run_rpmsave(answer)
    \/ \E code \in ExitCodes : run_exit(code)
    \/ run_return

\* the [main] sections that set no frontend
PlainSections == {m \in MainSections : m.frontend = NoOption}

(***************************************************************************)
(* Spec: the sessions of one plugin instance.  Every mode, interactive or  *)
(* not, every resolved transaction, on a few filesystems.                  *)
(***************************************************************************)
Init == InitOver(SessionFilesystems)
Next == NextOver({"tty", "notty"}, {FALSE}, PlainSections, Transactions)
Spec == Init /\ [][Next]_vars

(***************************************************************************)
(* SpecFiles: the handlers on every filesystem, in every mode; the         *)
(* transactions install nothing.                                           *)
(***************************************************************************)
InitFiles == InitOver(Filesystems)
NextFiles == NextOver({"tty", "notty"}, {FALSE}, PlainSections, {<<>>})
SpecFiles == InitFiles /\ [][NextFiles]_vars

(***************************************************************************)
(* SpecConfig: every host configuration (stdin, the assume flags, the      *)
(* [main] section), on the few filesystems; the transactions install       *)
(* nothing.                                                                *)
(***************************************************************************)
InitConfig == InitOver(SessionFilesystems)
NextConfig == NextOver(StdinStates, BOOLEAN, MainSections, {<<>>})
SpecConfig == InitConfig /\ [][NextConfig]_vars

(***************************************************************************)
(* Properties of the handlers, checked under SpecFiles.                    *)
(***************************************************************************)
\* the handler calls of the run that the override's duplicate test did not
\* take as a duplicate (and that did not raise)
NonDuplicateCalls ==
    {i \in 1..Len(handled) :
        LET h == handled[i]
            d == _test_duplicate(h.before, h.conf_file, h.other_file)
        IN  ~h.raised /\ ~d.raised /\ ~d.value}

\* file x holds the content of file y
SameContent(x, y) ==
    /\ x.type = y.type
    /\ x.type = "regular" => x.content = y.content

BothPairsDiffered ==
    /\ Len(handled) = 2
    /\ NonDuplicateCalls = {1, 2}
    /\ handled[1].kind = "rpmnew" /\ handled[2].kind = "rpmsave"
    /\ \A i \in {1, 2} :
          LET h == handled[i]
          IN  /\ h.before[h.conf_file].type = "regular"
              /\ h.before[h.other_file].type = "regular"
              /\ h.before[h.conf_file].content # h.before[h.other_file].content

IdenticalCalls ==
    {i \in 1..Len(handled) :
        LET h == handled[i]
        IN  /\ h.before[h.conf_file].type = "regular"
            /\ h.before[h.other_file].type = "regular"
            /\ h.before[h.conf_file].content = h.before[h.other_file].content}

\* C3: a pair of identical bytes, neither path a broken symlink, in any mode
\* and of either kind: the handler removes other_file, leaves every other
\* path as it was, and does nothing else (one _remove call, no overwrite, no
\* diff, no prompt).
C3_DuplicateShortCircuit ==
    \A i \in IdenticalCalls :
        LET h == handled[i]
        IN  /\ ~h.raised
            /\ h.after = [h.before EXCEPT ![h.other_file] = Absent]
            /\ h.calls = <<Call("_remove", "override", h.other_file, None)>>

\* identical pairs of both kinds were handled in one run, with different
\* modification times, in the given mode
IdenticalIn(mode) ==
    /\ rconf.built /\ rconf.unattended = mode
    /\ Len(handled) = 2 /\ IdenticalCalls = {1, 2}
    /\ handled[1].before[NewPath].mtime # handled[1].before[ConfPath].mtime

C3_Witness == IdenticalIn(None)

\* C4: the duplicate test says "duplicate" exactly when neither path is a
\* broken symlink and the two files hold the same bytes; on a broken symlink
\* it says "not a duplicate" without comparing.
C4_DuplicateIffSameBytes ==
    \A i \in 1..Len(handled) :
        LET h == handled[i]
            d == _test_duplicate(h.before, h.conf_file, h.other_file)
            b == is_broken_symlink(h.before, h.conf_file)
                   \/ is_broken_symlink(h.before, h.other_file)
        IN  /\ b => (~d.value /\ ~d.compared /\ ~d.raised)
            /\ (~b /\ ~d.raised) =>
                  (d.value <=> h.before[h.conf_file].content
                                 = h.before[h.other_file].content)

InHook == pc \in {"run_rpmnew", "run_rpmsave", "run_end", "done"}

\* C6: a transaction hook entered with the mode unset and the session
\* non-interactive skips the session: no UnattendedRpmConf is built, no
\* handler is called, one debug message is logged and the hook returns; in
\* every other combination of mode and interactivity the run is started.
C6_SkipOnlyUnsetNonInteractive ==
    InHook =>
        IF unattended = None /\ _interactive = FALSE
        THEN /\ pc = "done"
             /\ ~rconf.built
             /\ handled = <<>>
             /\ runExit = NoExit
             /\ hookResult = "returned"
             /\ logged = <<"will not run in non-interactive mode">>
        ELSE rconf.built

\* a skipped session that had a pair to resolve
C6_Witness ==
    /\ pc = "done" /\ unattended = None /\ _interactive = FALSE
    /\ hookResult = "returned" /\ ~rconf.built
    /\ fs[ConfPath] # Absent /\ fs[NewPath] # Absent

\* C7: a run that ends with sys.exit(code), code neither ENOENT nor EINTR
\* (and not zero), leaves the transaction hook as a failure.
C7_OtherCodesPropagate ==
    (/\ pc = "done"
     /\ runExit.exc = "SystemExit"
     /\ runExit.code \notin {0, ENOENT, EINTR})
    => hookResult = "raised"

\* C8: a run that ends with sys.exit(ENOENT) or sys.exit(EINTR) makes the
\* transaction hook log one debug message, the code's own, and return.
C8_BenignCodesSuppressed ==
    (/\ pc = "done"
     /\ runExit.exc = "SystemExit"
     /\ runExit.code \in {ENOENT, EINTR})
    => /\ hookResult = "returned"
       /\ Len(logged) = 1
       /\ logged[1] = IF runExit.code = ENOENT
                      THEN "ignoring sys.exit: missing MERGE variable"
                      ELSE "ignoring sys.exit: missing file"

\* the run handled a pair and then ended with sys.exit(EINTR)
C8_Witness ==
    /\ pc = "done"
    /\ runExit = SystemExit(EINTR)
    /\ handled # <<>>
    /\ hookResult = "returned"

\* C9: the run of every session that is not skipped is given the names of
\* the packages the resolved transaction installs, in order, repeats kept.
C9_RunGetsReportedPackages ==
    rconf.built => rconf.packages = Flatten(base_transaction)

\* C10: the run of a session is given no package name other than those the
\* session's own resolved transaction installs.
C10_NoCarriedOverPackages ==
    rconf.built =>
        \A i \in 1..Len(rconf.packages) :
            \E j \in 1..Len(Flatten(base_transaction)) :
                rconf.packages[i] = Flatten(base_transaction)[j]

\* the calls by which a handler defers to the base class's prompt flow
PromptCalls(h) ==
    {k \in 1..Len(h.calls) :
        h.calls[k].op \in {"super._handle_rpmnew", "super._handle_rpmsave"}}

\* the calls the override makes itself
OwnCalls(h) == {k \in 1..Len(h.calls) : h.calls[k].by = "override"}

SurvivorCalls ==
    {i \in 1..Len(handled) :
        LET h == handled[i]
            d == _test_duplicate(h.before, h.conf_file, h.other_file)
        IN  /\ ~h.raised
            /\ d.value \/ rconf.unattended \in {"maintainer", "user"}}

\* after call h: other_file is gone, conf_file exists and holds one of the
\* two original contents whole, and no other path has changed
SingleSurvivor(h) ==
    /\ h.after[h.other_file] = Absent
    /\ h.after[h.conf_file] # Absent
    /\ \/ SameContent(h.after[h.conf_file], h.before[h.conf_file])
       \/ SameContent(h.after[h.conf_file], h.before[h.other_file])
    /\ \A p \in Paths \ {h.conf_file, h.other_file} : h.after[p] = h.before[p]

\* C15 as stated: every duplicate pair, and every other pair in maintainer
\* or user mode, leaves a single survivor.
C15_SingleSurvivorAnyPair ==
    \A i \in SurvivorCalls : SingleSurvivor(handled[i])

\* C15, amended: every such pair whose conf_file exists when the handler is
\* called leaves a single survivor.
C15_SingleSurvivor ==
    \A i \in SurvivorCalls :
        handled[i].before[handled[i].conf_file] # Absent
            => SingleSurvivor(handled[i])

\* a run in user mode that overwrote conf_file with the saved file, after
\* removing the .rpmnew variant
C15_Witness ==
    /\ rconf.built /\ rconf.unattended = "user"
    /\ BothPairsDiffered
    /\ SurvivorCalls = {1, 2}
    /\ SameContent(fs[ConfPath], handled[2].before[SavePath])
    /\ fs[NewPath] = Absent /\ fs[SavePath] = Absent

\* C11: an OSError raised while one pair is handled stays with that pair:
\* the transaction hook does not fail with it, and the slot's remaining
\* variant is still handled before the run ends.
C11_PairErrorIsolated ==
    \A i \in 1..Len(handled) :
        LET h == handled[i]
        IN  h.raised =>
              /\ hookResult # "raised"
              /\ (/\ pc = "done"
                  /\ h.kind = "rpmnew"
                  /\ h.before[SavePath] # Absent) => Len(handled) > i

(***************************************************************************)
(* Properties of config(), checked under SpecConfig.                       *)
(***************************************************************************)
Configured == pc # "constructed"

\* C12: after config() the mode is the configured `unattended` value when
\* that is diff, maintainer or user, and unset when the option is absent or
\* holds anything else, whatever the mode was before.
C12_ModeValidated ==
    Configured =>
        /\ unattended \in {None, "diff", "maintainer", "user"}
        /\ unattended =
              IF conf_main.unattended \in {"diff", "maintainer", "user"}
              THEN conf_main.unattended
              ELSE None

\* config() has read an unrecognised value, and degraded it to unset
C12_Witness ==
    /\ pc = "configured"
    /\ conf_main.unattended = "bogus"
    /\ unattended = None

\* C13: after config() the session is interactive exactly when stdin exists
\* and is a terminal and neither assume-yes nor assume-no is set.
C13_Interactivity ==
    Configured =>
        (_interactive = TRUE
            <=> (stdin = "tty" /\ ~assumeyes /\ ~assumeno))

\* config() on a terminal with assume-no set: not interactive
C13_Witness ==
    /\ pc = "configured"
    /\ stdin = "tty" /\ ~assumeyes /\ assumeno
    /\ _interactive = FALSE

====
